---- MODULE Spec2Model ----
(***************************************************************************)
(* A model of the action-moment engine of woodota: the interval algebra of *)
(* src/src/utils.py and the Match / MatchPlayer classes of src/src/dota.py.*)
(* Python lists are sequences, dicts are sequences of <<key, value>> pairs *)
(* in insertion order, and a call's outcome names the exception it raised  *)
(* ("none" when it returned).                                              *)
(***************************************************************************)
EXTENDS Integers, Sequences, FiniteSets, TLC

VARIABLES
    \* interval algebra (utils.py)
    intervals,      \* the list of {start, end} dicts passed to merge_close_intervals
    gap,            \* the gap passed to merge_close_intervals
    merged,         \* what merge_close_intervals returned
    ipc,            \* "input" before the call, "merged" after it
    call,           \* the other function of utils.py that is called, with its arguments
    ret,            \* what that function returned or raised
    \* one Match object used by one thread (dota.py)
    stream,         \* the events of the jsonlines file, in file order
    match,          \* the fields of the Match object
    cache,          \* what the cached_property descriptors stored on the object
    result,         \* the outcome of the latest call on the object
    \* the health series of one MatchPlayer (dota.py)
    hpEvents,       \* the events MatchPlayer.hp scans
    hpResult,       \* the outcome of MatchPlayer.hp
    \* two threads sharing one Match object
    threads,        \* each thread's call and its position in it
    locks,          \* the holder of each cached_property descriptor's lock
    lockedBuild,    \* whether functools.cached_property takes a lock (Python < 3.12)
    reads,          \* how many times the event stream was read
    builds,         \* how many times the player list was built
    \* the action moments of a parsed Match (dota.py)
    pmatch,         \* the fields of the parsed Match object
    asTarget,       \* each player's as_target table, by position in match.players
    MERGE_GAP,      \* settings.MERGE_GAP
    query           \* the outcome of the call made on the parsed match

ivars == <<intervals, gap, merged, ipc, call, ret>>
mvars == <<stream, match, cache, result>>
hvars == <<hpEvents, hpResult>>
tvars == <<threads, locks, lockedBuild, reads, builds>>
avars == <<pmatch, asTarget, MERGE_GAP, query>>
vars == <<intervals, gap, merged, ipc, call, ret, stream, match, cache, result, hpEvents, hpResult,
          threads, locks, lockedBuild, reads, builds, pmatch, asTarget, MERGE_GAP, query>>

----------------------------------------------------------------------------
(* Bounds *)

MaxTick == 3        \* ticks are 0..MaxTick
MaxLen == 3         \* longest interval list passed to the interval algebra
MaxGap == 1         \* gaps are 0..MaxGap
MaxEvents == 3      \* longest event stream
MaxSlot == 1        \* slots are 0..MaxSlot
MaxRoster == 2      \* longest roster of an epilogue event
MaxHpEvents == 3    \* longest event list scanned for a health series
MaxThreadEvents == 2 \* longest event stream of the Match two threads share
MaxWindows == 2     \* longest as_target table of a player

Ticks == 0..MaxTick
Gaps == 0..MaxGap

\* {start, end} dicts with start <= end
Intervals == {iv \in [start : Ticks, end : Ticks] : iv.start <= iv.end}

SeqsUpTo(S, n) == UNION {[1..k -> S] : k \in 0..n}

\* the variables of a part of the model that a specification does not use
NoReturn == [state |-> "none"]
IdleMerge == intervals = <<>> /\ gap = 0 /\ merged = <<>> /\ ipc = "idle"
IdleCall == call = [fn |-> "idle"] /\ ret = NoReturn
IdleIntervals == IdleMerge /\ IdleCall
IdleThreads ==
    threads = <<>> /\ locks = <<>> /\ lockedBuild = FALSE /\ reads = 0 /\ builds = 0
IdleMoments ==
    /\ pmatch = <<>> /\ asTarget = <<>> /\ MERGE_GAP = 0
    /\ query = [op |-> "idle", raised |-> "none", arg |-> "", player |-> 0, rows |-> <<>>]
IdleHp == hpEvents = <<>> /\ hpResult = [state |-> "idle", raised |-> "none", series |-> <<>>]

\* the elements of a list
Range(s) == {s[i] : i \in 1..Len(s)}

\* two intervals are within gap g of each other
Linked(a, b, g) == a.start <= b.end + g /\ b.start <= a.end + g

Max(a, b) == IF a >= b THEN a ELSE b
Min(a, b) == IF a <= b THEN a ELSE b

----------------------------------------------------------------------------
(* utils.py: merge_close_intervals *)

\* the sort key of utils.py:113, (start, end), compared as Python compares tuples
KeyLE(a, b) == a.start < b.start \/ (a.start = b.start /\ a.end <= b.end)

\* sorted(intervals, key=(start, end)): a stable sort, here by insertion from the left
RECURSIVE InsertByKey(_, _)
InsertByKey(x, s) ==
    IF s = <<>> THEN <<x>>
    ELSE IF KeyLE(s[Len(s)], x) THEN Append(s, x)
    ELSE Append(InsertByKey(x, SubSeq(s, 1, Len(s) - 1)), s[Len(s)])

RECURSIVE SortedByKey(_)
\* mutant: the list is folded in the order it was given
KeepOrder(s) == s

SortedByKey(s) ==
    IF s = <<>> THEN <<>>
    ELSE InsertByKey(s[Len(s)], SortedByKey(SubSeq(s, 1, Len(s) - 1)))

\* the for loop of utils.py:116-124 from position i on, then lines 125-127
RECURSIVE MergeFold(_, _, _, _, _)
MergeFold(srt, i, prev, acc, g) ==
    IF i > Len(srt)
    THEN IF acc = <<>> \/ acc[Len(acc)] # prev THEN Append(acc, prev) ELSE acc
    ELSE LET current == srt[i] IN
         IF current.start <= prev.end + g
         THEN MergeFold(srt, i + 1,
                        [start |-> prev.start, end |-> Max(current.end, prev.end)],
                        acc, g)
         ELSE MergeFold(srt, i + 1, current, Append(acc, prev), g)

\* mutant: the intervals are folded in the order given, without sorting
merge_unsorted(ivs, g) ==
    IF Len(ivs) < 2 THEN ivs
    ELSE MergeFold(ivs, 2, ivs[1], <<>>, g)

\* mutant: the gap is exclusive (< instead of <=)
RECURSIVE MergeFoldStrict(_, _, _, _, _)
MergeFoldStrict(srt, i, prev, acc, g) ==
    IF i > Len(srt)
    THEN Append(acc, prev)
    ELSE LET current == srt[i] IN
         IF current.start < prev.end + g
         THEN MergeFoldStrict(srt, i + 1,
                        [start |-> prev.start, end |-> Max(current.end, prev.end)],
                        acc, g)
         ELSE MergeFoldStrict(srt, i + 1, current, Append(acc, prev), g)

merge_exclusive_gap(ivs, g) ==
    IF Len(ivs) < 2 THEN ivs
    ELSE LET srt == SortedByKey(ivs) IN MergeFoldStrict(srt, 2, srt[1], <<>>, g)

merge_close_intervals(ivs, g) ==
    IF Len(ivs) < 2 THEN ivs
    ELSE LET srt == SortedByKey(ivs) IN MergeFold(srt, 2, srt[1], <<>>, g)

----------------------------------------------------------------------------
(* dota.py: Match *)

\* an attribute that may be None: None is <<>> and a value x is <<x>>
None == <<>>
Some(x) == <<x>>
Val(o) == o[1]
NoUnit == "no unit"

\* UnitToName, dota.py:336-466: two of its members; any other unit raises KeyError
KnownUnits == {"CDOTA_Unit_Hero_Axe", "CDOTA_Unit_Hero_Bane"}
Units == KnownUnits \cup {"CDOTA_Unit_Hero_Kez"}
UnitToName(unit) ==
    CASE unit = "CDOTA_Unit_Hero_Axe" -> "npc_dota_hero_axe"
      [] unit = "CDOTA_Unit_Hero_Bane" -> "npc_dota_hero_bane"
HeroNames == {UnitToName(u) : u \in KnownUnits}

Slots == 0..MaxSlot

\* the steamid_ values a roster lists, in roster order
RosterPool == [i \in 1..(MaxRoster + 1) |-> 76561190 + i]
Rosters == {SubSeq(RosterPool, 1, n) : n \in 0..MaxRoster}

\* The events of a stream: interval events (with or without a unit), epilogue
\* events, any other event (a combat log line), and an event with no time field.
\* Every event carries a type, and an interval event that names a unit a slot.
Event(kind, hasTime, unit, slot, roster) ==
    [kind |-> kind, hasTime |-> hasTime, unit |-> unit, slot |-> slot, roster |-> roster]
Events ==
    {Event("interval", TRUE, u, sl, <<>>) : u \in Units, sl \in Slots}
    \cup {Event("interval", TRUE, NoUnit, 0, <<>>)}
    \cup {Event("epilogue", TRUE, NoUnit, 0, r) : r \in Rosters}
    \cup {Event("DOTA_COMBATLOG_DAMAGE", TRUE, NoUnit, 0, <<>>)}
    \cup {Event("DOTA_COMBATLOG_DAMAGE", FALSE, NoUnit, 0, <<>>)}

\* Python dicts: <<key, value>> pairs in insertion order
DictKeys(d) == [i \in 1..Len(d) |-> d[i][1]]
DictHas(d, k) == \E i \in 1..Len(d) : d[i][1] = k
DictGet(d, k) == d[CHOOSE i \in 1..Len(d) : d[i][1] = k][2]
DictSet(d, k, v) ==
    IF DictHas(d, k)
    THEN [i \in 1..Len(d) |-> IF d[i][1] = k THEN <<k, v>> ELSE d[i]]
    ELSE Append(d, <<k, v>>)

\* {value: key for key, value in d.items()}
RECURSIVE Inverted(_)
Inverted(d) ==
    IF d = <<>> THEN <<>>
    ELSE DictSet(Inverted(SubSeq(d, 1, Len(d) - 1)), d[Len(d)][2], d[Len(d)][1])

\* Match.__init__
NewMatch ==
    [_events |-> None, unit_to_slot |-> None, slot_to_unit |-> None,
     name_to_slot |-> None, slot_to_name |-> None, steam_ids |-> None,
     _players |-> None]

\* the loop of parse over the file, dota.py:78-93: NotParsedError at the first event
\* with no time, and otherwise the locals events, unit_to_slot and epilogue
RECURSIVE ParseLoop(_, _)
ParseLoop(lines, n) ==
    IF n = 0 THEN [raised |-> "none", events |-> <<>>, unit_to_slot |-> <<>>, epilogue |-> None]
    ELSE LET before == ParseLoop(lines, n - 1)
             e == lines[n]
         IN  IF before.raised # "none" THEN before
             ELSE IF ~e.hasTime THEN [before EXCEPT !.raised = "NotParsedError"]
             ELSE [raised |-> "none",
                   events |-> Append(before.events, e),
                   unit_to_slot |-> IF e.kind = "interval" /\ e.unit # NoUnit
                                    THEN DictSet(before.unit_to_slot, e.unit, e.slot)
                                    ELSE before.unit_to_slot,
                   epilogue |-> IF e.kind = "epilogue" THEN Some(e) ELSE before.epilogue]

\* dota.py:101, {UnitToName[unit].value: slot for unit, slot in unit_to_slot.items()}
NameToSlot(unit_to_slot) ==
    [i \in 1..Len(unit_to_slot) |-> <<UnitToName(unit_to_slot[i][1]), unit_to_slot[i][2]>>]

\* Match._get_steam_ids_from_epilogue, for an epilogue that is an event
get_steam_ids_from_epilogue(epilogue) == epilogue.roster

\* MatchPlayer.__init__
MatchPlayer(m, slot, hero_name, steam_id) ==
    [slot |-> slot, hero_name |-> hero_name, steam_id |-> steam_id,
     unit |-> DictGet(Val(m.slot_to_unit), slot)]

\* the length of zip(a, b, c)
ZipLen(a, b, c) == Min(Len(a), Min(Len(b), Len(c)))

\* mutant: the slots are zipped in reverse order against the names and the ids
construct_players_reversed_slots(m) ==
    LET n == ZipLen(DictKeys(Val(m.slot_to_name)), DictKeys(Val(m.name_to_slot)), Val(m.steam_ids))
        slots == DictKeys(Val(m.slot_to_name))
    IN  [i \in 1..n |->
            MatchPlayer(m, slots[Len(slots) + 1 - i], DictKeys(Val(m.name_to_slot))[i],
                        Val(m.steam_ids)[i])]

\* Match._construct_players
construct_players(m) ==
    [i \in 1..ZipLen(DictKeys(Val(m.slot_to_name)), DictKeys(Val(m.name_to_slot)), Val(m.steam_ids)) |->
        MatchPlayer(m, DictKeys(Val(m.slot_to_name))[i], DictKeys(Val(m.name_to_slot))[i],
                    Val(m.steam_ids)[i])]

\* Match.parse on the object m reading the file lines: the exception it raises
\* ("none" when it returns) and the object it leaves behind
parse(m, lines) ==
    IF m._events # None THEN [raised |-> "none", m |-> m]
    ELSE LET loop == ParseLoop(lines, Len(lines)) IN
         IF loop.raised # "none" THEN [raised |-> loop.raised, m |-> m]
         ELSE IF loop.events = <<>> THEN [raised |-> "NotParsedError", m |-> m]
         ELSE LET m100 == [m EXCEPT !._events = Some(loop.events),
                                    !.unit_to_slot = Some(loop.unit_to_slot),
                                    !.slot_to_unit = Some(Inverted(loop.unit_to_slot))]
              IN  IF \E i \in 1..Len(loop.unit_to_slot) : loop.unit_to_slot[i][1] \notin KnownUnits
                  THEN [raised |-> "KeyError", m |-> m100]
                  ELSE LET m102 == [m100 EXCEPT !.name_to_slot = Some(NameToSlot(loop.unit_to_slot)),
                                                !.slot_to_name = Some(Inverted(NameToSlot(loop.unit_to_slot)))]
                       IN  IF loop.epilogue = None
                           THEN [raised |-> "TypeError", m |-> m102]
                           ELSE LET m103 == [m102 EXCEPT !.steam_ids = Some(get_steam_ids_from_epilogue(Val(loop.epilogue)))]
                                IN  [raised |-> "none",
                                     m |-> [m103 EXCEPT !._players = Some(construct_players(m103))]]

NoCall == [op |-> "none", raised |-> "none", arg |-> "", value |-> "None"]
\* nothing cached yet; cache.players is <<>> while unset and <<v>> once v is stored
NewCache == [events |-> FALSE, players |-> <<>>]

IdleMatch == stream = <<>> /\ match = NewMatch /\ cache = NewCache /\ result = NoCall

InitMatch ==
    /\ stream \in SeqsUpTo(Events, MaxEvents)
    /\ match = NewMatch
    /\ cache = NewCache
    /\ result = NoCall
    /\ IdleIntervals /\ IdleHp /\ IdleThreads /\ IdleMoments

\* match.parse(), as get_highlights calls it
Parse ==
    LET r == parse(match, stream) IN
    /\ match' = r.m
    /\ result' = [op |-> "parse", raised |-> r.raised, arg |-> "", value |-> "None"]
    /\ UNCHANGED <<stream, cache>>
    /\ UNCHANGED <<ivars, hvars, tvars, avars>>

\* the cached property Match.events
EventsProperty ==
    /\ IF cache.events
       THEN /\ result' = [op |-> "events", raised |-> "none", arg |-> "", value |-> "None"]
            /\ UNCHANGED <<match, cache>>
       ELSE LET r == parse(match, stream) IN
            /\ match' = r.m
            /\ cache' = [cache EXCEPT !.events = (r.raised = "none")]
            /\ result' = [op |-> "events", raised |-> r.raised, arg |-> "", value |-> "None"]
    /\ UNCHANGED stream
    /\ UNCHANGED <<ivars, hvars, tvars, avars>>

\* the cached property Match.players on the object m with the cache c: the
\* exception raised, the value returned, and the object and cache left behind
players(m, c, lines) ==
    IF c.players # <<>> THEN [raised |-> "none", value |-> Val(c.players), m |-> m, c |-> c]
    ELSE IF m._players # None
    THEN [raised |-> "none", value |-> m._players, m |-> m,
          c |-> [c EXCEPT !.players = Some(m._players)]]
    ELSE LET r == parse(m, lines) IN
         IF r.raised # "none" THEN [raised |-> r.raised, value |-> None, m |-> r.m, c |-> c]
         ELSE [raised |-> "none", value |-> r.m._players, m |-> r.m,
               c |-> [c EXCEPT !.players = Some(r.m._players)]]

PlayersProperty ==
    LET r == players(match, cache, stream) IN
    /\ match' = r.m
    /\ cache' = r.c
    /\ result' = [op |-> "players", raised |-> r.raised, arg |-> "",
                  value |-> IF r.value = None THEN "None" ELSE "list"]
    /\ UNCHANGED stream
    /\ UNCHANGED <<ivars, hvars, tvars, avars>>

NextMatch == Parse \/ EventsProperty \/ PlayersProperty

Spec == InitMatch /\ [][NextMatch]_vars

----------------------------------------------------------------------------
(* Properties of Match.parse *)

HasNoTime(lines) == \E i \in 1..Len(lines) : ~lines[i].hasTime
Epilogues(lines) == {i \in 1..Len(lines) : lines[i].kind = "epilogue"}
\* the unit -> slot observations of a stream
Observations(lines) ==
    {<<lines[i].unit, lines[i].slot>> :
        i \in {j \in 1..Len(lines) : lines[j].kind = "interval" /\ lines[j].unit # NoUnit}}

\* C3: when the stream is empty, an event lacks a time field, or the stream holds no
\* epilogue event, parse fails with NotParsedError and with no other error. (Stated
\* for streams whose units are all in UnitToName.)
C3_NotParsedError ==
    (/\ result.op = "parse"
     /\ \A o \in Observations(stream) : o[1] \in KnownUnits
     /\ (stream = <<>> \/ HasNoTime(stream) \/ Epilogues(stream) = {}))
    => result.raised = "NotParsedError"

\* C4: a parse that returns has given every resolved slot a player with an external
\* id (a roster shorter than the slot count makes parse fail instead).
C4_RosterCoversSlots ==
    (result.op = "parse" /\ result.raised = "none" /\ match._players # None)
    => Len(Val(match._players)) = Len(Val(match.slot_to_name))

\* the streams of C5: every event has a time, the observed units are known to
\* UnitToName, distinct units are observed in distinct slots (each in one slot only),
\* and the single epilogue lists as many ids as there are observations
C5_Stream(lines) ==
    /\ ~HasNoTime(lines)
    /\ \A o \in Observations(lines) : o[1] \in KnownUnits
    /\ \A o1, o2 \in Observations(lines) : o1 # o2 => (o1[1] # o2[1] /\ o1[2] # o2[2])
    /\ Cardinality(Epilogues(lines)) = 1
    /\ \A i \in Epilogues(lines) : Len(lines[i].roster) = Cardinality(Observations(lines))

C19_NeverHalfParsed ==
    /\ match._events # None =>
          /\ match.unit_to_slot # None /\ match.slot_to_unit # None
          /\ match.name_to_slot # None /\ match.slot_to_name # None
          /\ match.steam_ids # None
          /\ match._players # None
    /\ (result.op = "parse" /\ result.raised = "none") => match._players # None
    /\ (result.op = "players" /\ result.raised = "none") => result.value # "None"

\* C20: every player built by a successful parse agrees with the identity maps,
\* whether or not the units occupy distinct slots: its hero name is the name of its
\* slot, its unit is the unit of its slot, and no two players share a slot.
C20_PlayersAgreeWithMaps ==
    match._players # None =>
        LET ps == Val(match._players) IN
        /\ \A i \in 1..Len(ps) :
              /\ ps[i].hero_name = DictGet(Val(match.slot_to_name), ps[i].slot)
              /\ ps[i].unit = DictGet(Val(match.slot_to_unit), ps[i].slot)
        /\ \A i, j \in 1..Len(ps) : i # j => ps[i].slot # ps[j].slot

----------------------------------------------------------------------------
(* dota.py: MatchPlayer.hp *)

\* the unit of the player whose health is computed
OwnUnit == "CDOTA_Unit_Hero_Axe"
HpValues == {0, 650}

\* What the scan reads of an event: whether it has a type, its type, its unit
\* (NoUnit when it has none), and its ticks and hp when it has them.
HpEvent(hasType, kind, unit, hasTicks, ticks, hasHp, hp) ==
    [hasType |-> hasType, kind |-> kind, unit |-> unit,
     hasTicks |-> hasTicks, ticks |-> ticks, hasHp |-> hasHp, hp |-> hp]
HpEventValues ==
    {HpEvent(TRUE, "interval", OwnUnit, TRUE, t, TRUE, h) : t \in Ticks, h \in HpValues}
    \cup {HpEvent(TRUE, "interval", OwnUnit, TRUE, t, FALSE, 0) : t \in Ticks}
    \cup {HpEvent(TRUE, "interval", OwnUnit, FALSE, 0, TRUE, 650)}
    \cup {HpEvent(TRUE, "interval", "CDOTA_Unit_Hero_Bane", TRUE, 0, TRUE, 650)}
    \cup {HpEvent(TRUE, "interval", NoUnit, TRUE, 0, FALSE, 0)}
    \cup {HpEvent(TRUE, "DOTA_COMBATLOG_DAMAGE", NoUnit, FALSE, 0, FALSE, 0)}
    \cup {HpEvent(FALSE, "", NoUnit, FALSE, 0, FALSE, 0)}

\* the for loop of hp, dota.py:206-213, over the first n events: the lists time and
\* health, and whether an exception ended the loop
RECURSIVE HpScan(_, _, _)
HpScan(events, unit, n) ==
    IF n = 0 THEN [time |-> <<>>, health |-> <<>>, broke |-> FALSE]
    ELSE LET before == HpScan(events, unit, n - 1)
             e == events[n]
         IN  IF before.broke THEN before
             ELSE IF ~e.hasType THEN [before EXCEPT !.broke = TRUE]
             ELSE IF ~(e.kind = "interval" /\ e.unit = unit) THEN before
             ELSE IF ~e.hasTicks THEN [before EXCEPT !.broke = TRUE]
             ELSE IF ~e.hasHp
                  THEN [before EXCEPT !.time = Append(@, e.ticks), !.broke = TRUE]
                  ELSE [before EXCEPT !.time = Append(@, e.ticks),
                                      !.health = Append(@, e.hp)]

\* TimeSeries(index=time, data=health): pandas raises ValueError when the lengths differ
TimeSeries(index, data) ==
    IF Len(index) # Len(data) THEN [raised |-> "ValueError", series |-> <<>>]
    ELSE [raised |-> "none", series |-> [i \in 1..Len(index) |-> <<index[i], data[i]>>]]

\* MatchPlayer.hp
hp(events, unit) ==
    LET scan == HpScan(events, unit, Len(events)) IN TimeSeries(scan.time, scan.health)

InitHp ==
    /\ hpEvents \in SeqsUpTo(HpEventValues, MaxHpEvents)
    /\ hpResult = [state |-> "pending", raised |-> "none", series |-> <<>>]
    /\ IdleIntervals /\ IdleMatch /\ IdleThreads /\ IdleMoments

Hp ==
    /\ hpResult.state = "pending"
    /\ LET r == hp(hpEvents, OwnUnit) IN
       hpResult' = [state |-> "done", raised |-> r.raised, series |-> r.series]
    /\ UNCHANGED hpEvents
    /\ UNCHANGED <<ivars, mvars, tvars, avars>>

NextHp == Hp

SpecHp == InitHp /\ [][NextHp]_vars

\* an event of the scanned unit's series that fails the shape the scan expects
Malformed(e) ==
    \/ ~e.hasType
    \/ e.kind = "interval" /\ e.unit = OwnUnit /\ (~e.hasTicks \/ ~e.hasHp)

\* the (tick, health) samples of the scanned unit before the first malformed event
RECURSIVE SamplesBeforeMalformed(_, _)
SamplesBeforeMalformed(events, n) ==
    IF n = 0 THEN <<>>
    ELSE LET e == events[n] IN
         IF \E i \in 1..n : Malformed(events[i]) THEN SamplesBeforeMalformed(events, n - 1)
         ELSE IF e.kind = "interval" /\ e.unit = OwnUnit
              THEN Append(SamplesBeforeMalformed(events, n - 1), <<e.ticks, e.hp>>)
              ELSE SamplesBeforeMalformed(events, n - 1)

\* a well-formed sample of the scanned unit
Sample(e) == e.hasType /\ e.kind = "interval" /\ e.unit = OwnUnit /\ e.hasTicks /\ e.hasHp

\* C6: a malformed interval event in the middle of the health scan (after a sample
\* was collected) does not make the computation of the health series fail: the series
\* of the samples collected before the malformed event is returned.
C6_HpTruncates ==
    (/\ hpResult.state = "done"
     /\ Len(hpEvents) >= 2 /\ Sample(hpEvents[1])
     /\ \E i \in 2..Len(hpEvents) : Malformed(hpEvents[i]))
    => /\ hpResult.raised = "none"
       /\ hpResult.series = SamplesBeforeMalformed(hpEvents, Len(hpEvents))

----------------------------------------------------------------------------
(* Two threads calling parse / events / players on one Match object. A thread  *)
(* switch can fall between any two statements, so each step below is one      *)
(* statement, or a run of statements that touch nothing shared. The lock is   *)
(* the one functools.cached_property holds around the computation before      *)
(* Python 3.12, one per descriptor; later versions hold none.                 *)

Threads == {1, 2}
Entries == {"parse", "events", "players"}
IdleThread == [pc |-> "idle", entry |-> "", raised |-> "none"]

InitThreads ==
    /\ stream \in SeqsUpTo(Events, MaxThreadEvents)
    /\ match = NewMatch
    /\ cache = NewCache
    /\ result = NoCall
    /\ threads = [t \in Threads |-> IdleThread]
    /\ locks = [d \in {"events", "players"} |-> 0]
    /\ lockedBuild \in BOOLEAN
    /\ reads = 0
    /\ builds = 0
    /\ IdleIntervals /\ IdleHp /\ IdleMoments

Cached(c, attr) == IF attr = "events" THEN c.events ELSE c.players # <<>>

Goto(t, pc) == threads' = [threads EXCEPT ![t].pc = pc]

\* an exception leaves parse and the cached property: the with block releases the lock
Raise(t, exc) ==
    /\ threads' = [threads EXCEPT ![t].pc = "done", ![t].raised = exc]
    /\ locks' = [d \in DOMAIN locks |-> IF locks[d] = t THEN 0 ELSE locks[d]]

\* a thread calls match.parse(), or reads match.events or match.players
Call(t, entry) ==
    /\ threads[t].pc = "idle"
    /\ threads' = [threads EXCEPT ![t] =
                      [pc |-> IF entry = "parse" THEN "parse_75" ELSE "get", entry |-> entry,
                       raised |-> "none"]]
    /\ UNCHANGED <<stream, match, cache, result, locks, lockedBuild, reads, builds>>
    /\ UNCHANGED <<ivars, hvars, avars>>

\* cached_property.__get__: the value is looked up in the instance's __dict__
CachedGet(t) ==
    /\ threads[t].pc = "get"
    /\ Goto(t, IF Cached(cache, threads[t].entry) THEN "done"
               ELSE IF lockedBuild THEN "lock" ELSE "func")
    /\ UNCHANGED <<stream, match, cache, result, locks, lockedBuild, reads, builds>>
    /\ UNCHANGED <<ivars, hvars, avars>>

\* with self.lock: and the second lookup under the lock
CachedLock(t) ==
    /\ threads[t].pc = "lock"
    /\ locks[threads[t].entry] = 0
    /\ IF Cached(cache, threads[t].entry)
       THEN Goto(t, "done") /\ UNCHANGED locks
       ELSE Goto(t, "func") /\ locks' = [locks EXCEPT ![threads[t].entry] = t]
    /\ UNCHANGED <<stream, match, cache, result, lockedBuild, reads, builds>>
    /\ UNCHANGED <<ivars, hvars, avars>>

\* the body of the property: events calls parse, players calls it when _players is None
PropertyBody(t) ==
    /\ threads[t].pc = "func"
    /\ Goto(t, IF threads[t].entry = "players" /\ match._players # None
               THEN "store" ELSE "parse_75")
    /\ UNCHANGED <<stream, match, cache, result, locks, lockedBuild, reads, builds>>
    /\ UNCHANGED <<ivars, hvars, avars>>

\* dota.py:75, if self._events is not None: return
ParseCheck(t) ==
    /\ threads[t].pc = "parse_75"
    /\ Goto(t, IF match._events # None
               THEN (IF threads[t].entry = "parse" THEN "done" ELSE "store")
               ELSE "parse_78")
    /\ UNCHANGED <<stream, match, cache, result, locks, lockedBuild, reads, builds>>
    /\ UNCHANGED <<ivars, hvars, avars>>

\* dota.py:78-96, the file is read into the locals
ParseRead(t) ==
    /\ threads[t].pc = "parse_78"
    /\ reads' = reads + 1
    /\ LET loop == ParseLoop(stream, Len(stream)) IN
       IF loop.raised # "none" \/ loop.events = <<>>
       THEN Raise(t, "NotParsedError")
       ELSE Goto(t, "parse_98") /\ UNCHANGED locks
    /\ UNCHANGED <<stream, match, cache, result, lockedBuild, builds>>
    /\ UNCHANGED <<ivars, hvars, avars>>

\* dota.py:98, self._events = events
ParseSetEvents(t) ==
    /\ threads[t].pc = "parse_98"
    /\ match' = [match EXCEPT !._events = Some(ParseLoop(stream, Len(stream)).events)]
    /\ Goto(t, "parse_99")
    /\ UNCHANGED <<stream, cache, result, locks, lockedBuild, reads, builds>>
    /\ UNCHANGED <<ivars, hvars, avars>>

\* dota.py:99-102, the identity maps
ParseSetMaps(t) ==
    /\ threads[t].pc = "parse_99"
    /\ LET u2s == ParseLoop(stream, Len(stream)).unit_to_slot
           m100 == [match EXCEPT !.unit_to_slot = Some(u2s), !.slot_to_unit = Some(Inverted(u2s))]
       IN  IF \E i \in 1..Len(u2s) : u2s[i][1] \notin KnownUnits
           THEN match' = m100 /\ Raise(t, "KeyError")
           ELSE /\ match' = [m100 EXCEPT !.name_to_slot = Some(NameToSlot(u2s)),
                                         !.slot_to_name = Some(Inverted(NameToSlot(u2s)))]
                /\ Goto(t, "parse_103") /\ UNCHANGED locks
    /\ UNCHANGED <<stream, cache, result, lockedBuild, reads, builds>>
    /\ UNCHANGED <<ivars, hvars, avars>>

\* dota.py:103, self.steam_ids = self._get_steam_ids_from_epilogue(epilogue)
ParseSetSteamIds(t) ==
    /\ threads[t].pc = "parse_103"
    /\ LET epilogue == ParseLoop(stream, Len(stream)).epilogue IN
       IF epilogue = None
       THEN Raise(t, "TypeError") /\ UNCHANGED match
       ELSE /\ match' = [match EXCEPT !.steam_ids = Some(get_steam_ids_from_epilogue(Val(epilogue)))]
            /\ Goto(t, "parse_104") /\ UNCHANGED locks
    /\ UNCHANGED <<stream, cache, result, lockedBuild, reads, builds>>
    /\ UNCHANGED <<ivars, hvars, avars>>

\* dota.py:104, self._players = self._construct_players()
ParseSetPlayers(t) ==
    /\ threads[t].pc = "parse_104"
    /\ match' = [match EXCEPT !._players = Some(construct_players(match))]
    /\ builds' = builds + 1
    /\ Goto(t, IF threads[t].entry = "parse" THEN "done" ELSE "store")
    /\ UNCHANGED <<stream, cache, result, locks, lockedBuild, reads>>
    /\ UNCHANGED <<ivars, hvars, avars>>

\* the property returns self._events or self._players; cached_property stores the
\* value in the instance's __dict__ and leaves the with block
CachedStore(t) ==
    /\ threads[t].pc = "store"
    /\ cache' = IF threads[t].entry = "events" THEN [cache EXCEPT !.events = TRUE]
                ELSE [cache EXCEPT !.players = Some(match._players)]
    /\ threads' = [threads EXCEPT ![t].pc = "done"]
    /\ locks' = [d \in DOMAIN locks |-> IF locks[d] = t THEN 0 ELSE locks[d]]
    /\ UNCHANGED <<stream, match, result, lockedBuild, reads, builds>>
    /\ UNCHANGED <<ivars, hvars, avars>>

NextThreads ==
    \/ \E t \in Threads, entry \in Entries : Call(t, entry)
    \/ \E t \in Threads : CachedGet(t)
    \/ \E t \in Threads : CachedLock(t)
    \/ \E t \in Threads : PropertyBody(t)
    \/ \E t \in Threads : ParseCheck(t)
    \/ \E t \in Threads : ParseRead(t)
    \/ \E t \in Threads : ParseSetEvents(t)
    \/ \E t \in Threads : ParseSetMaps(t)
    \/ \E t \in Threads : ParseSetSteamIds(t)
    \/ \E t \in Threads : ParseSetPlayers(t)
    \/ \E t \in Threads : CachedStore(t)

SpecThreads == InitThreads /\ [][NextThreads]_vars

\* a stream that parse loads: it is not empty and every event has a time
Readable(lines) ==
    ParseLoop(lines, Len(lines)).raised = "none" /\ ParseLoop(lines, Len(lines)).events # <<>>

\* C7: the memoized properties are computed at most once even when two threads
\* access events / players or call parse on the same unparsed Match at the same
\* time: a stream that can be loaded is read at most once, and the player list is
\* built at most once.
C7_ComputedAtMostOnce == builds <= 1 /\ (Readable(stream) => reads <= 1)

----------------------------------------------------------------------------
(* dota.py: the action moments of the players and of the match.               *)
(* A player is named by its position in match.players. A table (a pandas      *)
(* DataFrame) is its list of rows; the table of no rows has no start and no   *)
(* end column.                                                                *)

\* the streams of the parsed matches: no hero, one hero, two heroes
MomentStreams ==
    {<<Event("epilogue", TRUE, NoUnit, 0, SubSeq(RosterPool, 1, 0))>>,
     <<Event("interval", TRUE, "CDOTA_Unit_Hero_Axe", 0, <<>>),
       Event("epilogue", TRUE, NoUnit, 0, SubSeq(RosterPool, 1, 1))>>,
     <<Event("interval", TRUE, "CDOTA_Unit_Hero_Axe", 0, <<>>),
       Event("interval", TRUE, "CDOTA_Unit_Hero_Bane", 1, <<>>),
       Event("epilogue", TRUE, NoUnit, 0, SubSeq(RosterPool, 1, 2))>>}

ParsedMatches == {parse(NewMatch, lines).m : lines \in MomentStreams}

\* the hero names asked for: those of UnitToName and one that no player carries
QueryNames == HeroNames \cup {"npc_dota_hero_zuus"}

\* The rows find_attacks gives for target p among n players (section 4.4 of the
\* specification): windows with start < end, each after the one before, each with
\* target_dead and the set of opposing entities that damaged p in the window.
Windows(n, p) ==
    {w \in [start : Ticks, end : Ticks, target_dead : BOOLEAN,
            attacker_heroes : SUBSET ((1..n) \ {p})] : w.start < w.end}
AttackTables(n, p) ==
    {t \in SeqsUpTo(Windows(n, p), MaxWindows) :
        \A i \in 1..Len(t) - 1 : t[i].end < t[i + 1].start}

\* one find_attacks table for each of the first k of n players
RECURSIVE MatchTables(_, _)
MatchTables(n, k) ==
    IF k = 0 THEN {<<>>}
    ELSE {Append(s, t) : s \in MatchTables(n, k - 1), t \in AttackTables(n, k)}

\* MatchPlayer.as_target: the rows of find_attacks, each with its target
as_target(tables, p) ==
    [i \in 1..Len(tables[p]) |->
        [start |-> tables[p][i].start, end |-> tables[p][i].end,
         target_dead |-> tables[p][i].target_dead,
         attacker_heroes |-> tables[p][i].attacker_heroes, target |-> p]]

\* list.sort(key=start): a stable sort, here by insertion from the left
RECURSIVE InsertByStart(_, _)
InsertByStart(x, s) ==
    IF s = <<>> THEN <<x>>
    ELSE IF s[Len(s)].start <= x.start THEN Append(s, x)
    ELSE Append(InsertByStart(x, SubSeq(s, 1, Len(s) - 1)), s[Len(s)])

RECURSIVE SortedOnStart(_)
SortedOnStart(s) ==
    IF s = <<>> THEN <<>>
    ELSE InsertByStart(s[Len(s)], SortedOnStart(SubSeq(s, 1, Len(s) - 1)))

\* the rows of the as_target tables of the first n players that have p as an attacker
RECURSIVE AttackedBy(_, _, _)
AttackedBy(tables, p, n) ==
    IF n = 0 THEN <<>>
    ELSE AttackedBy(tables, p, n - 1)
         \o SelectSeq(as_target(tables, n), LAMBDA w : p \in w.attacker_heroes)

\* mutant: the collected windows are left in the order of the players' tables
as_attacker_unsorted(tables, p) == AttackedBy(tables, p, Len(tables))

\* MatchPlayer.as_attacker
as_attacker(tables, p) == SortedOnStart(AttackedBy(tables, p, Len(tables)))

\* df[['start', 'end']].to_dict('records')
StartEnd(rows) == [i \in 1..Len(rows) |-> [start |-> rows[i].start, end |-> rows[i].end]]

\* df_moments['time'] = df_moments['start']
WithTime(rows) ==
    [i \in 1..Len(rows) |-> [start |-> rows[i].start, end |-> rows[i].end, time |-> rows[i].start]]

\* mutant: the escapes are concatenated to the kills (dota.py:323, disabled)
action_moments_with_escapes(tables, p, g) ==
    LET df_escapes == SelectSeq(as_target(tables, p),
                                LAMBDA w : ~w.target_dead /\ w.attacker_heroes # {})
        df_attacks == SelectSeq(as_attacker(tables, p), LAMBDA w : w.target_dead)
        df_moments == df_escapes \o df_attacks
    IN  IF df_moments = <<>> THEN <<>>
        ELSE WithTime(merge_close_intervals(StartEnd(df_moments), g))

\* mutant: the as_attacker windows are not filtered on target_dead (dota.py:321-322)
action_moments_all_attacks(tables, p, g) ==
    LET df_moments == as_attacker(tables, p)
    IN  IF df_moments = <<>> THEN <<>>
        ELSE WithTime(merge_close_intervals(StartEnd(df_moments), g))

\* MatchPlayer.action_moments, with MERGE_GAP = g
player_action_moments(tables, p, g) ==
    LET df_attacks == SelectSeq(as_attacker(tables, p), LAMBDA w : w.target_dead)
        df_moments == df_attacks
    IN  IF df_moments = <<>> THEN <<>>
        ELSE WithTime(merge_close_intervals(StartEnd(df_moments), g))

\* pd.concat of the action moments of the players in the list ps
RECURSIVE Concat(_, _, _, _)
Concat(tables, ps, n, g) ==
    IF n = 0 THEN <<>>
    ELSE Concat(tables, ps, n - 1, g) \o player_action_moments(tables, ps[n], g)

\* dota.py:136-141 and 159-164 for the players ps, merging with gap mg: pd.concat
\* raises ValueError for no table at all, and [['start', 'end']] raises KeyError
\* when every table concatenated is empty
MomentsOf(tables, ps, g, mg) ==
    IF ps = <<>> THEN [raised |-> "ValueError", rows |-> <<>>]
    ELSE LET df_moments == Concat(tables, ps, Len(ps), g) IN
         IF df_moments = <<>> THEN [raised |-> "KeyError", rows |-> <<>>]
         ELSE [raised |-> "none",
               rows |-> WithTime(merge_close_intervals(StartEnd(df_moments), mg))]

\* Match.action_moments
match_action_moments(m, tables, g) ==
    MomentsOf(tables, [i \in 1..Len(Val(m._players)) |-> i], g, g)

\* the gap single_player_action_moments merges with, dota.py:161
SinglePlayerGap == 10

\* Match.single_player_action_moments
single_player_action_moments(m, tables, g, hero_name) ==
    MomentsOf(tables,
              SelectSeq([i \in 1..Len(Val(m._players)) |-> i],
                        LAMBDA i : Val(m._players)[i].hero_name = hero_name),
              g, SinglePlayerGap)

\* Match.get_player: the position of the first player of that name, 0 for None
get_player(m, hero_name) ==
    IF \E i \in 1..Len(Val(m._players)) : Val(m._players)[i].hero_name = hero_name
    THEN CHOOSE i \in 1..Len(Val(m._players)) :
            /\ Val(m._players)[i].hero_name = hero_name
            /\ \A j \in 1..(i - 1) : Val(m._players)[j].hero_name # hero_name
    ELSE 0

InitMoments ==
    /\ pmatch \in ParsedMatches
    /\ asTarget \in MatchTables(Len(Val(pmatch._players)), Len(Val(pmatch._players)))
    /\ MERGE_GAP \in Gaps
    /\ query = [op |-> "none", raised |-> "none", arg |-> "", player |-> 0, rows |-> <<>>]
    /\ IdleIntervals /\ IdleMatch /\ IdleHp /\ IdleThreads

\* player.action_moments of one player of the match
PlayerActionMoments(p) ==
    /\ query.op = "none"
    /\ query' = [op |-> "player.action_moments", raised |-> "none", arg |-> "", player |-> p,
                 rows |-> player_action_moments(asTarget, p, MERGE_GAP)]
    /\ UNCHANGED <<pmatch, asTarget, MERGE_GAP>>
    /\ UNCHANGED <<ivars, mvars, hvars, tvars>>

\* match.action_moments
MatchActionMoments ==
    /\ query.op = "none"
    /\ LET r == match_action_moments(pmatch, asTarget, MERGE_GAP) IN
       query' = [op |-> "action_moments", raised |-> r.raised, arg |-> "", player |-> 0,
                 rows |-> r.rows]
    /\ UNCHANGED <<pmatch, asTarget, MERGE_GAP>>
    /\ UNCHANGED <<ivars, mvars, hvars, tvars>>

\* match.single_player_action_moments(hero_name)
SinglePlayerActionMoments(hero_name) ==
    /\ query.op = "none"
    /\ LET r == single_player_action_moments(pmatch, asTarget, MERGE_GAP, hero_name) IN
       query' = [op |-> "single_player_action_moments", raised |-> r.raised,
                 arg |-> hero_name, player |-> 0, rows |-> r.rows]
    /\ UNCHANGED <<pmatch, asTarget, MERGE_GAP>>
    /\ UNCHANGED <<ivars, mvars, hvars, tvars>>

\* match.get_player(hero_name)
GetPlayer(hero_name) ==
    /\ query.op = "none"
    /\ query' = [op |-> "get_player", raised |-> "none", arg |-> hero_name,
                 player |-> get_player(pmatch, hero_name), rows |-> <<>>]
    /\ UNCHANGED <<pmatch, asTarget, MERGE_GAP>>
    /\ UNCHANGED <<ivars, mvars, hvars, tvars>>

NextMoments ==
    \/ \E p \in 1..Len(Val(pmatch._players)) : PlayerActionMoments(p)
    \/ MatchActionMoments
    \/ \E hero_name \in QueryNames : SinglePlayerActionMoments(hero_name)
    \/ \E hero_name \in QueryNames : GetPlayer(hero_name)

SpecMoments == InitMoments /\ [][NextMoments]_vars

\* the names the players of the parsed match carry
CarriedNames == {Val(pmatch._players)[i].hero_name : i \in 1..Len(Val(pmatch._players))}

\* C8: in a parsed match with players, a query by a hero name that no player carries
\* is reported as not found and never as an exception, by get_player and by
\* single_player_action_moments alike.
C8_MissingEntityNotFound ==
    (/\ query.op \in {"get_player", "single_player_action_moments"}
     /\ CarriedNames # {}
     /\ query.arg \notin CarriedNames)
    => (query.raised = "none" /\ query.player = 0 /\ query.rows = <<>>)

\* the windows of all as_target tables in which p is an attacker and the target died
KillWindows(p) ==
    {w \in UNION {Range(as_target(asTarget, t)) : t \in 1..Len(asTarget)} :
        p \in w.attacker_heroes /\ w.target_dead}

\* the windows in which p was attacked by somebody and survived
EscapeWindows(p) ==
    {w \in Range(as_target(asTarget, p)) : ~w.target_dead /\ w.attacker_heroes # {}}

\* the windows of W that a chain of windows of W within gap g connects to w
RECURSIVE Chain(_, _, _, _)
Chain(W, g, S, n) ==
    IF n = 0 THEN S
    ELSE Chain(W, g, S \cup {v \in W : \E u \in S : Linked(u, v, g)}, n - 1)

\* the {start, end, time} row that covers the set of windows S
Cover(S) ==
    LET lo == CHOOSE x \in {w.start : w \in S} : \A w \in S : x <= w.start
        hi == CHOOSE x \in {w.end : w \in S} : \A w \in S : x >= w.end
    IN  [start |-> lo, end |-> hi, time |-> lo]

\* the rows that merging the windows of W with gap g must give, as a set
MergedCovers(W, g) == {Cover(Chain(W, g, {w}, Cardinality(W))) : w \in W}

\* rows in increasing order, more than g apart
Separated(rows, g) == \A i \in 1..Len(rows) - 1 : rows[i + 1].start > rows[i].end + g

AllPlayerMoments ==
    UNION {Range(StartEnd(player_action_moments(asTarget, p, MERGE_GAP))) :
              p \in 1..Len(asTarget)}

\* C10: the action moments of a match with players are the merge, with MERGE_GAP, of
\* the union of all players' action moments: they are sorted and apart, and every
\* player's action moment lies inside one of them.
C10_MatchActionMoments ==
    (query.op = "action_moments" /\ Len(asTarget) > 0) =>
        /\ query.raised = "none"
        /\ Range(query.rows) = MergedCovers(AllPlayerMoments, MERGE_GAP)
        /\ Separated(query.rows, MERGE_GAP)
        /\ \A w \in AllPlayerMoments :
              \E i \in 1..Len(query.rows) :
                  query.rows[i].start <= w.start /\ w.end <= query.rows[i].end

\* the windows on target b in which a is among the attackers
AttacksOn(a, b) == {w \in Range(as_target(asTarget, b)) : a \in w.attacker_heroes}

\* the ticks at which the death that sets target_dead can lie (section 4.4, step 3:
\* a death event of the target inside the window)
DeathTicks(w) == IF w.target_dead THEN w.start..w.end ELSE {}

\* a two-entity match where a's damage appears in exactly one window on b, and b dies
\* in that window
LethalOnce(a, b) ==
    /\ Len(asTarget) = 2 /\ {a, b} = {1, 2}
    /\ Cardinality(AttacksOn(a, b)) = 1
    /\ \A w \in AttacksOn(a, b) : w.target_dead

\* what the claim says of the outcome of a query when a has killed b once
EndToEnd(a, b) ==
    LET w == CHOOSE x \in AttacksOn(a, b) : TRUE
        moment == [start |-> w.start, end |-> w.end, time |-> w.start]
    IN  /\ (query.op = "player.action_moments" /\ query.player = b) => query.rows = <<>>
        /\ (query.op = "player.action_moments" /\ query.player = a) =>
               /\ query.rows = <<moment>>
               /\ \A d \in DeathTicks(w) : query.rows[1].start <= d /\ d <= query.rows[1].end
        /\ query.op = "action_moments" => (query.raised = "none" /\ query.rows = <<moment>>)

\* C11 as stated: in a two-entity match where A's damage appears in exactly one attack
\* window on B and B dies in it, B has no action moments, A has exactly one, which
\* brackets the death tick, and the action moments of the match are A's.
C11_TwoEntityAsStated ==
    \A a, b \in 1..Len(asTarget) : LethalOnce(a, b) => EndToEnd(a, b)

\* C11, amended: the same, for matches in which B appears in no window on A that ends
\* in A's death (B has no recorded kill).
C11_TwoEntityLethalOnce ==
    \A a, b \in 1..Len(asTarget) :
        (LethalOnce(a, b) /\ \A w \in AttacksOn(b, a) : ~w.target_dead) => EndToEnd(a, b)

\* the match moments were asked for after A killed B once and B wounded A
C11_Witness ==
    \E a, b \in 1..Len(asTarget) :
        /\ LethalOnce(a, b)
        /\ AttacksOn(b, a) # {}
        /\ \A w \in AttacksOn(b, a) : ~w.target_dead
        /\ query.op = "action_moments"
        /\ Len(query.rows) = 1

----------------------------------------------------------------------------
(* dota.py: MatchPlayer.as_attacker in a match of three players, where the     *)
(* windows of a player come from the tables of two others.                     *)

AttackerPlayers == 1..3

\* the find_attacks tables of player p that hold k windows, each after the one
\* before
RECURSIVE TablesOfLen(_, _)
TablesOfLen(p, k) ==
    IF k = 0 THEN {<<>>}
    ELSE UNION {{Append(t, w) : w \in {x \in Windows(3, p) :
                                         t # <<>> => t[Len(t)].end < x.start}} :
                t \in TablesOfLen(p, k - 1)}

\* how many windows each of the three tables holds: at most MaxWindows in all
TableLengths ==
    {k \in [AttackerPlayers -> 0..MaxWindows] : k[1] + k[2] + k[3] <= MaxWindows}

\* the tables of the three players, of the lengths k
TablesOfLengths(k) ==
    LET T1 == TablesOfLen(1, k[1])
        T2 == TablesOfLen(2, k[2])
        T3 == TablesOfLen(3, k[3])
    IN  {<<a, b, c>> : a \in T1, b \in T2, c \in T3}

InitAttackers ==
    /\ pmatch = <<>>
    /\ \E k \in TableLengths : asTarget \in TablesOfLengths(k)
    /\ MERGE_GAP = 0
    /\ query = [op |-> "none", raised |-> "none", arg |-> "", player |-> 0, rows |-> <<>>]
    /\ IdleIntervals /\ IdleMatch /\ IdleHp /\ IdleThreads

\* player.as_attacker of one player of the match
AsAttacker(p) ==
    /\ query.op = "none"
    /\ query' = [op |-> "as_attacker", raised |-> "none", arg |-> "", player |-> p,
                 rows |-> as_attacker(asTarget, p)]
    /\ UNCHANGED <<pmatch, asTarget, MERGE_GAP>>
    /\ UNCHANGED <<ivars, mvars, hvars, tvars>>

NextAttackers == \E p \in 1..Len(asTarget) : AsAttacker(p)

SpecAttackers == InitAttackers /\ [][NextAttackers]_vars

\* the windows of the other players' as_target tables that have p as an attacker
AttacksOnOthers(p) ==
    {w \in UNION {Range(as_target(asTarget, t)) : t \in (1..Len(asTarget)) \ {p}} :
        p \in w.attacker_heroes}

----------------------------------------------------------------------------
(* The interval algebra as a state machine: an input is drawn, the function *)
(* is applied to it.                                                        *)

InitIntervals ==
    /\ intervals \in SeqsUpTo(Intervals, MaxLen)
    /\ gap \in Gaps
    /\ merged = <<>>
    /\ ipc = "input"
    /\ IdleCall /\ IdleMatch /\ IdleHp /\ IdleThreads /\ IdleMoments

MergeCloseIntervals ==
    /\ ipc = "input"
    /\ merged' = merge_close_intervals(intervals, gap)
    /\ ipc' = "merged"
    /\ UNCHANGED <<intervals, gap, call, ret>>
    /\ UNCHANGED <<mvars, hvars, tvars, avars>>

NextIntervals == MergeCloseIntervals

SpecIntervals == InitIntervals /\ [][NextIntervals]_vars

----------------------------------------------------------------------------
(* Measures used by the properties *)

RECURSIVE TotalDuration(_)
TotalDuration(s) ==
    IF s = <<>> THEN 0
    ELSE (s[Len(s)].end - s[Len(s)].start) + TotalDuration(SubSeq(s, 1, Len(s) - 1))

\* the measure of the union of the intervals of s: the unit cells [k, k+1]
\* that lie inside some interval of s
UnionMeasure(s) ==
    Cardinality({k \in Ticks : \E i \in 1..Len(s) : s[i].start <= k /\ k + 1 <= s[i].end})

SortedByStart(s) == \A i \in 1..Len(s) - 1 : s[i].start <= s[i + 1].start

NonOverlapping(s) == \A i, j \in 1..Len(s) : i < j => s[i].end < s[j].start

\* C1: with gap = 0 the output of merge_close_intervals is sorted by start, pairwise
\* non-overlapping, and its total duration is the measure of the union of the input.
C1_MergeZeroGap ==
    (ipc = "merged" /\ gap = 0) =>
        /\ SortedByStart(merged)
        /\ NonOverlapping(merged)
        /\ TotalDuration(merged) = UnionMeasure(intervals)

C1_Witness ==
    /\ ipc = "merged" /\ gap = 0
    /\ Len(intervals) = 3 /\ Len(merged) = 2
    /\ intervals[1].start > intervals[2].start
    /\ \E i, j \in 1..3 : i # j /\ intervals[i].start < intervals[j].start
                          /\ intervals[j].start < intervals[i].end

\* the indices of s that a chain of linked intervals connects to index i
RECURSIVE Reach(_, _, _, _)
Reach(s, g, S, n) ==
    IF n = 0 THEN S
    ELSE Reach(s, g, S \cup {j \in 1..Len(s) : \E i \in S : Linked(s[i], s[j], g)}, n - 1)

Component(s, g, i) == Reach(s, g, {i}, Len(s))

\* the interval from the least start to the greatest end of the intervals s[i], i in S
Hull(s, S) ==
    [start |-> CHOOSE x \in {s[i].start : i \in S} : \A i \in S : x <= s[i].start,
     end   |-> CHOOSE x \in {s[i].end : i \in S} : \A i \in S : x >= s[i].end]

\* C2: the running interval and the next sorted interval are merged exactly when
\* next.start <= running.end + gap (inclusive), with end = max of both ends, and kept
\* apart otherwise: two intervals a <= b give one interval iff b.start <= a.end + gap,
\* the output is the hull of each chain of intervals within gap of each other, and
\* [{0,5},{6,10}] stays two intervals with gap 0 and becomes [{0,10}] with gap 1.
C2_MergeRule ==
    /\ merge_close_intervals(<<[start |-> 0, end |-> 5], [start |-> 6, end |-> 10]>>, 0)
         = <<[start |-> 0, end |-> 5], [start |-> 6, end |-> 10]>>
    /\ merge_close_intervals(<<[start |-> 0, end |-> 5], [start |-> 6, end |-> 10]>>, 1)
         = <<[start |-> 0, end |-> 10]>>
    /\ (ipc = "merged" /\ Len(intervals) = 2) =>
         LET first == IF KeyLE(intervals[1], intervals[2]) THEN 1 ELSE 2
             a == intervals[first]
             b == intervals[3 - first]
         IN  IF b.start <= a.end + gap
             THEN merged = <<[start |-> a.start, end |-> Max(a.end, b.end)]>>
             ELSE merged = <<a, b>>
    /\ (ipc = "merged") =>
         /\ \A i \in 1..Len(merged) - 1 : merged[i + 1].start > merged[i].end + gap
         /\ Range(merged) = {Hull(intervals, Component(intervals, gap, i)) : i \in 1..Len(intervals)}

C2_Witness ==
    /\ ipc = "merged" /\ gap = 1
    /\ intervals = <<[start |-> 2, end |-> 3], [start |-> 0, end |-> 1]>>
    /\ merged = <<[start |-> 0, end |-> 3]>>

\* the rearrangements of a list of n elements
Rearrangements(n) == {f \in [1..n -> 1..n] : \A i, j \in 1..n : f[i] = f[j] => i = j}

Permuted(s, f) == [i \in 1..Len(s) |-> s[f[i]]]

\* C22: for gap >= 0 merge_close_intervals is idempotent (merging its output again
\* with the same gap returns that output), independent of the order of its input
\* (every permutation of the input gives the same output), and consecutive output
\* intervals satisfy next.start > prev.end + gap.
C22_MergeIdempotentOrderFree ==
    (ipc = "merged") =>
        /\ merge_close_intervals(merged, gap) = merged
        /\ \A f \in Rearrangements(Len(intervals)) :
              merge_close_intervals(Permuted(intervals, f), gap) = merged
        /\ \A i \in 1..Len(merged) - 1 : merged[i + 1].start > merged[i].end + gap

\* an input of three intervals that is not in sorted order, of which two merge
C22_Witness ==
    /\ ipc = "merged" /\ gap >= 0
    /\ Len(intervals) = 3 /\ Len(merged) = 2
    /\ \E i \in 1..2 : ~KeyLE(intervals[i], intervals[i + 1])

----------------------------------------------------------------------------
(* utils.py: convert_binary_mask_to_intervals. A series is the list of its   *)
(* (index, value) items, the index increasing; a dict under construction is   *)
(* a list of <<key, value>> pairs.                                            *)

MaxMaskTick == 4    \* the index of a boolean series lies in 0..MaxMaskTick

MaskTicks == 0..MaxMaskTick

\* the series that has tick t in its index when f[t] is not "absent"
RECURSIVE SeriesOf(_, _)
SeriesOf(f, t) ==
    IF t < 0 THEN <<>>
    ELSE LET before == SeriesOf(f, t - 1) IN
         IF f[t] = "absent" THEN before
         ELSE Append(before, [time |-> t, flag |-> f[t] = "T"])

BinaryMasks == {SeriesOf(f, MaxMaskTick) : f \in [MaskTicks -> {"absent", "T", "F"}]}

Pop(s) == SubSeq(s, 1, Len(s) - 1)
SetLast(s, x) == [s EXCEPT ![Len(s)] = x]

\* the for loop of utils.py:84-91 from item i on
RECURSIVE MaskLoop(_, _, _, _)
MaskLoop(binary_mask, i, ivs, prev_flag) ==
    IF i > Len(binary_mask) THEN ivs
    ELSE LET time == binary_mask[i].time
             flag == binary_mask[i].flag
             opened == IF flag /\ ~prev_flag
                       THEN SetLast(ivs, DictSet(ivs[Len(ivs)], "start", time))
                       ELSE ivs
             closed == IF ~flag /\ prev_flag
                       THEN Append(SetLast(opened, DictSet(opened[Len(opened)], "end", time)),
                                   <<>>)
                       ELSE opened
         IN  MaskLoop(binary_mask, i + 1, closed, flag)

\* mutant: a run that is open at the end is always closed at the last index
mask_to_intervals_keep_last(binary_mask) ==
    IF binary_mask = <<>> THEN <<>>
    ELSE LET looped == MaskLoop(binary_mask, 1, <<(<<>>)>>, FALSE)
             last_interval == looped[Len(looped)]
             ivs == IF last_interval = <<>> THEN Pop(looped) ELSE looped
         IN  IF DictHas(last_interval, "start") /\ ~DictHas(last_interval, "end")
             THEN SetLast(ivs, DictSet(last_interval, "end",
                                       binary_mask[Len(binary_mask)].time))
             ELSE ivs

\* utils.py:78-103
convert_binary_mask_to_intervals(binary_mask) ==
    IF binary_mask = <<>> THEN <<>>
    ELSE LET looped == MaskLoop(binary_mask, 1, <<(<<>>)>>, FALSE)
             last_interval == looped[Len(looped)]
             ivs == IF last_interval = <<>> THEN Pop(looped) ELSE looped
         IN  IF DictHas(last_interval, "start") /\ ~DictHas(last_interval, "end")
             THEN LET series_last_time == binary_mask[Len(binary_mask)].time IN
                  IF DictGet(last_interval, "start") # series_last_time
                  THEN SetLast(ivs, DictSet(last_interval, "end", series_last_time))
                  ELSE Pop(ivs)
             ELSE ivs

InitMask ==
    /\ call \in {[fn |-> "convert_binary_mask_to_intervals", binary_mask |-> m] :
                    m \in BinaryMasks}
    /\ ret = NoReturn
    /\ IdleMerge /\ IdleMatch /\ IdleHp /\ IdleThreads /\ IdleMoments

ConvertBinaryMaskToIntervals ==
    /\ call.fn = "convert_binary_mask_to_intervals" /\ ret = NoReturn
    /\ ret' = [state |-> "returned",
               value |-> convert_binary_mask_to_intervals(call.binary_mask)]
    /\ UNCHANGED <<intervals, gap, merged, ipc, call>>
    /\ UNCHANGED <<mvars, hvars, tvars, avars>>

NextMask == ConvertBinaryMaskToIntervals

SpecMask == InitMask /\ [][NextMask]_vars

\* the positions of the series where a run of True values begins
RunStarts(m) == {i \in 1..Len(m) : m[i].flag /\ (i = 1 \/ ~m[i - 1].flag)}

\* the positions after i where the value is False
FalseAfter(m, i) == {j \in (i + 1)..Len(m) : ~m[j].flag}

\* where the run that begins at position i closes: at the next False value, or at
\* the last position
RunClose(m, i) ==
    IF FalseAfter(m, i) # {}
    THEN CHOOSE j \in FalseAfter(m, i) : \A k \in FalseAfter(m, i) : j <= k
    ELSE Len(m)

\* the intervals of the runs, without the run that begins at the last position
RunIntervals(m) ==
    {<<(<<"start", m[i].time>>), (<<"end", m[RunClose(m, i)].time>>)>> :
        i \in {k \in RunStarts(m) : RunClose(m, k) # k}}

\* C13: convert_binary_mask_to_intervals returns, in index order, one interval for
\* each run of True values: from the tick where the run begins to the tick of the
\* next False value, or to the last index for a run still open at the end; a run
\* that begins at the last index is dropped; an empty or all-False series gives no
\* interval, and [F,T,T,F,T] at ticks 0..4 gives [{start 1, end 3}].
C13_MaskToIntervals ==
    ret.state = "returned" =>
        /\ Range(ret.value) = RunIntervals(call.binary_mask)
        /\ \A i \in 1..Len(ret.value) - 1 :
              DictGet(ret.value[i], "end") < DictGet(ret.value[i + 1], "start")
        /\ (\A i \in 1..Len(call.binary_mask) : ~call.binary_mask[i].flag) => ret.value = <<>>
        /\ call.binary_mask = [i \in 1..5 |-> [time |-> i - 1, flag |-> i \in {2, 3, 5}]]
              => ret.value = <<(<<(<<"start", 1>>), (<<"end", 3>>)>>)>>

\* the series [F,T,T,F,T] at ticks 0..4 was converted
C13_Witness ==
    /\ ret.state = "returned"
    /\ call.binary_mask = [i \in 1..5 |-> [time |-> i - 1, flag |-> i \in {2, 3, 5}]]
    /\ Len(ret.value) = 1

----------------------------------------------------------------------------
(* utils.py: get_intersection *)

\* mutant: intervals that only touch do not intersect
get_intersection_strict(interval1, interval2) ==
    IF interval1.start >= interval2.end \/ interval2.start >= interval1.end
    THEN None
    ELSE Some([start |-> Max(interval1.start, interval2.start),
               end |-> Min(interval1.end, interval2.end)])

\* utils.py:136-145
get_intersection(interval1, interval2) ==
    IF interval1.start > interval2.end \/ interval2.start > interval1.end
    THEN None
    ELSE LET start == Max(interval1.start, interval2.start)
             end == Min(interval1.end, interval2.end)
         IN  Some([start |-> start, end |-> end])

InitIntersection ==
    /\ call \in {[fn |-> "get_intersection", interval1 |-> a, interval2 |-> b] :
                    a \in Intervals, b \in Intervals}
    /\ ret = NoReturn
    /\ IdleMerge /\ IdleMatch /\ IdleHp /\ IdleThreads /\ IdleMoments

GetIntersection ==
    /\ call.fn = "get_intersection" /\ ret = NoReturn
    /\ ret' = [state |-> "returned",
               value |-> get_intersection(call.interval1, call.interval2)]
    /\ UNCHANGED <<intervals, gap, merged, ipc, call>>
    /\ UNCHANGED <<mvars, hvars, tvars, avars>>

NextIntersection == GetIntersection

SpecIntersection == InitIntersection /\ [][NextIntersection]_vars

\* the ticks two intervals have in common
CommonTicks(a, b) == (a.start..a.end) \cap (b.start..b.end)

\* C14: get_intersection(a, b) is None exactly when a.start > b.end or
\* b.start > a.end; otherwise it is {start: max(a.start, b.start), end: min(a.end,
\* b.end)}, the interval of the common ticks; get_intersection(b, a) is the same.
C14_GetIntersection ==
    ret.state = "returned" =>
        LET a == call.interval1
            b == call.interval2
        IN  /\ ret.value = None <=> (a.start > b.end \/ b.start > a.end)
            /\ ret.value # None =>
                  /\ Val(ret.value).start >= a.start /\ Val(ret.value).start >= b.start
                  /\ Val(ret.value).start \in {a.start, b.start}
                  /\ Val(ret.value).end <= a.end /\ Val(ret.value).end <= b.end
                  /\ Val(ret.value).end \in {a.end, b.end}
                  /\ Val(ret.value).start..Val(ret.value).end = CommonTicks(a, b)
            /\ ret.value = None => CommonTicks(a, b) = {}
            /\ get_intersection(b, a) = ret.value

\* two intervals that only touch were intersected
C14_Witness ==
    /\ ret.state = "returned"
    /\ call.interval1.start < call.interval1.end
    /\ call.interval1.end = call.interval2.start
    /\ call.interval2.start < call.interval2.end
    /\ ret.value = Some([start |-> call.interval1.end, end |-> call.interval1.end])

----------------------------------------------------------------------------
(* utils.py: get_intersections and calculate_iou. A float is kept as the     *)
(* fraction it is the quotient of.                                           *)

MaxIouTick == 2     \* the intervals of the two sets lie in 0..MaxIouTick
MaxSet1 == 1        \* longest first interval set
MaxSet2 == 2        \* longest second interval set

IouIntervals ==
    {iv \in [start : 0..MaxIouTick, end : 0..MaxIouTick] : iv.start <= iv.end}

\* the inner for loop of utils.py:153-158 for i1, from position j of intervals2 on
RECURSIVE InnerScan(_, _, _, _)
InnerScan(i1, intervals2, j, intersections) ==
    IF j > Len(intervals2) THEN intersections
    ELSE LET i2 == intervals2[j] IN
         IF i2.start > i1.end THEN intersections
         ELSE LET intersection == get_intersection(i1, i2) IN
              InnerScan(i1, intervals2, j + 1,
                        IF intersection # None
                        THEN Append(intersections, Val(intersection))
                        ELSE intersections)

\* the outer for loop of utils.py:152-158 from position i of intervals1 on
RECURSIVE OuterScan(_, _, _, _)
OuterScan(intervals1, intervals2, i, intersections) ==
    IF i > Len(intervals1) THEN intersections
    ELSE OuterScan(intervals1, intervals2, i + 1,
                   InnerScan(intervals1[i], intervals2, 1, intersections))

\* mutant: the inner scan stops once i2.end > i1.end
RECURSIVE InnerScanOnEnd(_, _, _, _)
InnerScanOnEnd(i1, intervals2, j, intersections) ==
    IF j > Len(intervals2) THEN intersections
    ELSE LET i2 == intervals2[j] IN
         IF i2.end > i1.end THEN intersections
         ELSE LET intersection == get_intersection(i1, i2) IN
              InnerScanOnEnd(i1, intervals2, j + 1,
                             IF intersection # None
                             THEN Append(intersections, Val(intersection))
                             ELSE intersections)

RECURSIVE OuterScanOnEnd(_, _, _, _)
OuterScanOnEnd(intervals1, intervals2, i, intersections) ==
    IF i > Len(intervals1) THEN intersections
    ELSE OuterScanOnEnd(intervals1, intervals2, i + 1,
                        InnerScanOnEnd(intervals1[i], intervals2, 1, intersections))

get_intersections_stop_on_end(intervals1, intervals2) ==
    OuterScanOnEnd(SortedOnStart(intervals1), SortedOnStart(intervals2), 1, <<>>)

\* utils.py:148-159
get_intersections(intervals1, intervals2) ==
    OuterScan(SortedOnStart(intervals1), SortedOnStart(intervals2), 1, <<>>)

\* sum([i['end'] - i['start'] for i in ivs])
RECURSIVE SumDurations(_)
SumDurations(ivs) ==
    IF ivs = <<>> THEN 0
    ELSE SumDurations(SubSeq(ivs, 1, Len(ivs) - 1)) + ivs[Len(ivs)].end - ivs[Len(ivs)].start

\* mutant: an empty union gives 0
calculate_iou_default_zero(intervals1, intervals2) ==
    LET intersections == get_intersections(intervals1, intervals2)
        union == merge_close_intervals(intervals1 \o intervals2, 0)
        total_intersection == SumDurations(intersections)
        total_union == SumDurations(union)
    IN  IF total_union = 0
        THEN [state |-> "returned", value |-> [num |-> 0, den |-> 1]]
        ELSE [state |-> "returned",
              value |-> [num |-> total_intersection, den |-> total_union]]

\* mutant: the intersection over the sum of the two sets' durations
calculate_iou_over_sum(intervals1, intervals2) ==
    LET intersections == get_intersections(intervals1, intervals2)
        total_intersection == SumDurations(intersections)
        total_union == SumDurations(intervals1 \o intervals2)
    IN  IF total_union = 0
        THEN [state |-> "raised", raised |-> "ZeroDivisionError"]
        ELSE [state |-> "returned",
              value |-> [num |-> total_intersection, den |-> total_union]]

\* utils.py:162-169; int / int raises ZeroDivisionError for a zero divisor
calculate_iou(intervals1, intervals2) ==
    LET intersections == get_intersections(intervals1, intervals2)
        union == merge_close_intervals(intervals1 \o intervals2, 0)
        total_intersection == SumDurations(intersections)
        total_union == SumDurations(union)
    IN  IF total_union = 0
        THEN [state |-> "raised", raised |-> "ZeroDivisionError"]
        ELSE [state |-> "returned",
              value |-> [num |-> total_intersection, den |-> total_union]]

InitIou ==
    /\ call \in {[fn |-> f, intervals1 |-> s1, intervals2 |-> s2] :
                    f \in {"get_intersections", "calculate_iou"},
                    s1 \in SeqsUpTo(IouIntervals, MaxSet1),
                    s2 \in SeqsUpTo(IouIntervals, MaxSet2)}
    /\ ret = NoReturn
    /\ IdleMerge /\ IdleMatch /\ IdleHp /\ IdleThreads /\ IdleMoments

GetIntersections ==
    /\ call.fn = "get_intersections" /\ ret = NoReturn
    /\ ret' = [state |-> "returned",
               value |-> get_intersections(call.intervals1, call.intervals2)]
    /\ UNCHANGED <<intervals, gap, merged, ipc, call>>
    /\ UNCHANGED <<mvars, hvars, tvars, avars>>

CalculateIou ==
    /\ call.fn = "calculate_iou" /\ ret = NoReturn
    /\ ret' = calculate_iou(call.intervals1, call.intervals2)
    /\ UNCHANGED <<intervals, gap, merged, ipc, call>>
    /\ UNCHANGED <<mvars, hvars, tvars, avars>>

NextIou == GetIntersections \/ CalculateIou

SpecIou == InitIou /\ [][NextIou]_vars

\* two different intervals with exactly one endpoint in common
ShareOneEndpoint(a, b) ==
    a # b /\ Cardinality({a.start, a.end} \cap {b.start, b.end}) = 1

\* a call of calculate_iou on two single-interval sets has ended
SingleIntervalIou ==
    /\ call.fn = "calculate_iou" /\ ret.state # "none"
    /\ Len(call.intervals1) = 1 /\ Len(call.intervals2) = 1

\* C15 as stated: for two single-interval sets that share exactly one endpoint the
\* result of calculate_iou is strictly between 0 and 1, and for two identical
\* single-interval sets (of positive length, as [{0,10}]) it is 1.0.
C15_IouAsStated ==
    SingleIntervalIou =>
        LET a == call.intervals1[1]
            b == call.intervals2[1]
        IN  /\ ShareOneEndpoint(a, b) =>
                  /\ ret.state = "returned"
                  /\ 0 < ret.value.num /\ ret.value.num < ret.value.den
            /\ (a = b /\ a.start < a.end) =>
                  (ret.state = "returned" /\ ret.value.num = ret.value.den)

\* C15, amended: for two single-interval sets that share exactly one endpoint the
\* result is 0.0 when that endpoint is their only common point, and strictly between
\* 0 and 1 when they overlap; for two identical single-interval sets of positive
\* length it is 1.0.
C15_IouTouchingIsZero ==
    SingleIntervalIou =>
        LET a == call.intervals1[1]
            b == call.intervals2[1]
        IN  /\ ShareOneEndpoint(a, b) =>
                  /\ ret.state = "returned"
                  /\ Cardinality(CommonTicks(a, b)) = 1 => ret.value.num = 0
                  /\ Cardinality(CommonTicks(a, b)) > 1 =>
                        (0 < ret.value.num /\ ret.value.num < ret.value.den)
            /\ (a = b /\ a.start < a.end) =>
                  (ret.state = "returned" /\ ret.value.num = ret.value.den)

\* the sets [{0,1}] and [{1,2}], which touch at tick 1, gave 0 / 2
C15_Witness ==
    /\ SingleIntervalIou
    /\ call.intervals1[1].start < call.intervals1[1].end
    /\ call.intervals1[1].end = call.intervals2[1].start
    /\ call.intervals2[1].start < call.intervals2[1].end
    /\ ret.state = "returned" /\ ret.value = [num |-> 0, den |-> 2]

\* C16: calculate_iou does not default to zero: when both sets are empty or hold
\* only zero-length intervals (the 0-gap union has total duration zero), the call
\* ends in an error and returns no number.
C16_IouDegenerateRaises ==
    (/\ call.fn = "calculate_iou" /\ ret.state # "none"
     /\ \A iv \in Range(call.intervals1 \o call.intervals2) : iv.start = iv.end)
    => (ret.state = "raised" /\ ret.raised = "ZeroDivisionError")

\* the call on [{t,t}] and two zero-length intervals ended in ZeroDivisionError
C16_Witness ==
    /\ call.fn = "calculate_iou" /\ ret.state = "raised"
    /\ Len(call.intervals1) = 1 /\ Len(call.intervals2) = 2
    /\ call.intervals2[1] # call.intervals2[2]

\* how many times x occurs in the list s
Count(s, x) == Cardinality({i \in 1..Len(s) : s[i] = x})

\* the pairs (a in intervals1, b in intervals2) whose get_intersection is x
PairsGiving(x) ==
    {pr \in (1..Len(call.intervals1)) \X (1..Len(call.intervals2)) :
        get_intersection(call.intervals1[pr[1]], call.intervals2[pr[2]]) = Some(x)}

\* C18: get_intersections returns the same multiset of intervals as taking
\* get_intersection(a, b) for every pair (a in set1, b in set2) and keeping the
\* results that are not None: the early stop skips no overlapping pair.
C18_IntersectionsBruteForce ==
    (call.fn = "get_intersections" /\ ret.state = "returned") =>
        /\ Range(ret.value) \subseteq IouIntervals
        /\ \A x \in IouIntervals : Count(ret.value, x) = Cardinality(PairsGiving(x))

\* the inner scan met an interval of set2 that starts after the end of a, after an
\* interval of set2 that a intersects
C18_Witness ==
    /\ call.fn = "get_intersections" /\ ret.state = "returned"
    /\ Len(call.intervals1) = 1 /\ Len(call.intervals2) = 2
    /\ call.intervals2[1].start > call.intervals1[1].end
    /\ Len(ret.value) = 1

\* C21: whenever calculate_iou returns (the union of the two lists has positive
\* duration) the value lies between 0 and 1 inclusive, also when a list holds
\* intervals that overlap each other or are repeated.
C21_IouWithinUnit ==
    (call.fn = "calculate_iou" /\ ret.state = "returned") =>
        /\ ret.value.den > 0
        /\ 0 <= ret.value.num
        /\ ret.value.num <= ret.value.den

----------------------------------------------------------------------------
(* utils.py: convert_to_dota_clock_format. A str is the list of its          *)
(* characters.                                                               *)

MaxSeconds == 6005      \* the latest tick converted
PreGameSeconds == 90    \* the earliest tick converted is -PreGameSeconds

DigitChars == <<"0", "1", "2", "3", "4", "5", "6", "7", "8", "9">>

\* str(n) for n >= 0
RECURSIVE Digits(_)
Digits(n) ==
    IF n < 10 THEN <<DigitChars[n + 1]>>
    ELSE Append(Digits(n \div 10), DigitChars[(n % 10) + 1])

\* str(n)
Str(n) == IF n < 0 THEN <<"-">> \o Digits(-n) ELSE Digits(n)

\* str.zfill(width): zeros on the left, after a leading sign
zfill(s, width) ==
    LET zeros == [i \in 1..(width - Len(s)) |-> "0"] IN
    IF Len(s) >= width THEN s
    ELSE IF s # <<>> /\ s[1] \in {"+", "-"} THEN <<s[1]>> \o zeros \o Tail(s)
    ELSE zeros \o s

\* utils.py:176-179; // and % round towards minus infinity, as \div and % do
convert_to_dota_clock_format(seconds) ==
    LET minutes == zfill(Str(seconds \div 60), 2)
        secs == zfill(Str(seconds % 60), 2)
    IN  minutes \o <<":">> \o secs

InitClock ==
    /\ call \in {[fn |-> "convert_to_dota_clock_format", seconds |-> n] :
                    n \in (-PreGameSeconds)..MaxSeconds}
    /\ ret = NoReturn
    /\ IdleMerge /\ IdleMatch /\ IdleHp /\ IdleThreads /\ IdleMoments

ConvertToDotaClockFormat ==
    /\ call.fn = "convert_to_dota_clock_format" /\ ret = NoReturn
    /\ ret' = [state |-> "returned", value |-> convert_to_dota_clock_format(call.seconds)]
    /\ UNCHANGED <<intervals, gap, merged, ipc, call>>
    /\ UNCHANGED <<mvars, hvars, tvars, avars>>

NextClock == ConvertToDotaClockFormat

SpecClock == InitClock /\ [][NextClock]_vars

IsDigit(c) == \E d \in 1..10 : DigitChars[d] = c
DigitValue(c) == (CHOOSE d \in 1..10 : DigitChars[d] = c) - 1

\* the number a string of digits is the decimal notation of
RECURSIVE Decimal(_)
Decimal(s) ==
    IF s = <<>> THEN 0
    ELSE 10 * Decimal(SubSeq(s, 1, Len(s) - 1)) + DigitValue(s[Len(s)])

\* two or more digits, a colon, two digits
ClockShape(s) ==
    /\ Len(s) >= 5
    /\ s[Len(s) - 2] = ":"
    /\ \A i \in 1..Len(s) : i # Len(s) - 2 => IsDigit(s[i])

\* C17: for every integer tick, ticks before the clock's zero and ticks of 6000 or
\* more included, convert_to_dota_clock_format returns MM:SS: two or more digits, a
\* colon, two digits, with MM = seconds // 60, SS = seconds % 60 and
\* MM * 60 + SS = seconds.
C17_ClockFormat ==
    ret.state = "returned" /\ call.fn = "convert_to_dota_clock_format" =>
        /\ ClockShape(ret.value)
        /\ LET mm == Decimal(SubSeq(ret.value, 1, Len(ret.value) - 3))
               ss == Decimal(SubSeq(ret.value, Len(ret.value) - 1, Len(ret.value)))
           IN  /\ mm = call.seconds \div 60
               /\ ss = call.seconds % 60
               /\ mm * 60 + ss = call.seconds

----------------------------------------------------------------------------
(* dota.py: Match.get_action_moments, and server.py: get_highlights once the  *)
(* match is parsed. A response is the exception that left the handler, or the *)
(* rows it put under data.                                                    *)

\* Match.get_action_moments: self.action_moments is read first and what it raises
\* leaves the method; each row gets the clock forms of its start and its end
get_action_moments(m, tables, g) ==
    LET moments == match_action_moments(m, tables, g) IN
    IF moments.raised # "none" THEN moments
    ELSE [raised |-> "none",
          rows |-> [i \in 1..Len(moments.rows) |->
                      [start |-> moments.rows[i].start,
                       end |-> moments.rows[i].end,
                       clock_start |-> convert_to_dota_clock_format(moments.rows[i].start),
                       clock_end |-> convert_to_dota_clock_format(moments.rows[i].end)]]]

\* get_highlights after match.parse() returned: the call of get_action_moments is
\* outside the try block, so what it raises leaves the handler
get_highlights(m, tables, g) ==
    LET action_moments == get_action_moments(m, tables, g) IN
    [raised |-> action_moments.raised, success |-> action_moments.raised = "none",
     data |-> action_moments.rows]

InitHighlights ==
    /\ pmatch \in ParsedMatches
    /\ asTarget \in MatchTables(Len(Val(pmatch._players)), Len(Val(pmatch._players)))
    /\ MERGE_GAP \in Gaps
    /\ query = [op |-> "none", raised |-> "none", arg |-> "", player |-> 0, rows |-> <<>>]
    /\ IdleIntervals /\ IdleMatch /\ IdleHp /\ IdleThreads

\* match.get_action_moments()
GetActionMoments ==
    /\ query.op = "none"
    /\ LET r == get_action_moments(pmatch, asTarget, MERGE_GAP) IN
       query' = [op |-> "get_action_moments", raised |-> r.raised, arg |-> "", player |-> 0,
                 rows |-> r.rows]
    /\ UNCHANGED <<pmatch, asTarget, MERGE_GAP>>
    /\ UNCHANGED <<ivars, mvars, hvars, tvars>>

\* GET /getHighlights/<match_id> for a match that parses
GetHighlights ==
    /\ query.op = "none"
    /\ LET r == get_highlights(pmatch, asTarget, MERGE_GAP) IN
       query' = [op |-> "get_highlights", raised |-> r.raised, arg |-> "", player |-> 0,
                 rows |-> r.data]
    /\ UNCHANGED <<pmatch, asTarget, MERGE_GAP>>
    /\ UNCHANGED <<ivars, mvars, hvars, tvars>>

NextHighlights ==
    \/ MatchActionMoments
    \/ GetActionMoments
    \/ GetHighlights

SpecHighlights == InitHighlights /\ [][NextHighlights]_vars

\* C23: in a parsed match with players of which none has an action moment,
\* Match.action_moments and get_action_moments (and with it the highlights request)
\* return an empty result and raise nothing.
C23_EmptyMomentsReturnEmpty ==
    (/\ query.op \in {"action_moments", "get_action_moments", "get_highlights"}
     /\ Len(asTarget) > 0
     /\ \A p \in 1..Len(asTarget) : player_action_moments(asTarget, p, MERGE_GAP) = <<>>)
    => (query.raised = "none" /\ query.rows = <<>>)

====
